---- MODULE Spec2Model ----
(***************************************************************************)
(* Model of the Thumb load/store execute units (exmemwb_mem.cpp) and of    *)
(* the on-demand-all-backup energy-harvesting scheme                       *)
(* (on_demand_all_backup.hpp).                                             *)
(*                                                                         *)
(* A 32-bit word is a tuple of four bytes, least significant first         *)
(* (<<b0, b1, b2, b3>> is b0 + 2^8 b1 + 2^16 b2 + 2^24 b3), so that every  *)
(* uint32_t operation keeps its width: sums wrap modulo 2^32.              *)
(* An energy is a whole number of 1/32 nJ (0.03125 nJ), the unit in which  *)
(* every energy constant of the scheme is an integer.                      *)
(***************************************************************************)
EXTENDS Integers, Sequences, FiniteSets, TLC

VARIABLES
  gpr,                \* cpu.gpr[0..15]
  mem,                \* RAM: word-aligned address -> word
  BRANCH_WAS_TAKEN,   \* the branch-taken flag
  halted,             \* terminate_simulation was called
  ret,                \* cycle cost returned by the last handler
  bus,                \* load/store events issued by the last handler
  last,               \* the last instruction and the state it started from
  last2,              \* the instruction before it
  nsteps,             \* instructions executed
  battery,            \* energy stored in the scheme's capacitor
  last_cycle_count,   \* on_demand_all_backup::last_cycle_count
  models,             \* stats->models
  cycle_count,        \* stats->cpu.cycle_count
  pc,                 \* position of the driver loop
  ub,                 \* models.back() was evaluated on an empty vector
  hist                \* bookkeeping of the run, read by the properties only

cpuvars == <<gpr, mem, BRANCH_WAS_TAKEN, halted, ret, bus, last, last2, nsteps>>
ehvars == <<battery, last_cycle_count, models, cycle_count, pc, ub, hist>>
vars == <<gpr, mem, BRANCH_WAS_TAKEN, halted, ret, bus, last, last2, nsteps,
          battery, last_cycle_count, models, cycle_count, pc, ub, hist>>

----------------------------------------------------------------------------
(* Bounds of the model *)

\* instructions executed in one run of the execute units
MaxSteps == 2
\* words of RAM
MemWords == 12
\* initial register files and memory images
NumSeeds == 2
\* scheme operations in one run under any interleaving
MaxAnyEvents == 7
\* scheme operations in one run of the driver loop
MaxRunEvents == 16
\* instructions executed when all sub-word handlers are tried
MaxSubWordSteps == 1

----------------------------------------------------------------------------
(* uint32_t *)

Byte == 0..255

W(n) == <<n % 256, (n \div 256) % 256, (n \div 65536) % 256, (n \div 16777216) % 256>>

Lo16(w) == w[1] + 256 * w[2]
Hi16(w) == w[3] + 256 * w[4]

FromHalves(lo, hi) == <<lo % 256, (lo \div 256) % 256, hi % 256, (hi \div 256) % 256>>

\* a + b, wrapping
Add32(a, b) ==
  LET lo == Lo16(a) + Lo16(b)
      hi == Hi16(a) + Hi16(b) + (lo \div 65536)
  IN FromHalves(lo % 65536, hi % 65536)

\* a - b, wrapping
Sub32(a, b) ==
  LET lo == Lo16(a) - Lo16(b) + 65536
      hi == Hi16(a) - Hi16(b) + 65536 - (IF lo < 65536 THEN 1 ELSE 0)
  IN FromHalves(lo % 65536, hi % 65536)

RECURSIVE AndByte(_, _, _)
AndByte(a, b, n) ==
  IF n = 0 THEN 0
  ELSE (IF a % 2 = 1 /\ b % 2 = 1 THEN 1 ELSE 0) + 2 * AndByte(a \div 2, b \div 2, n - 1)

RECURSIVE OrByte(_, _, _)
OrByte(a, b, n) ==
  IF n = 0 THEN 0
  ELSE (IF a % 2 = 1 \/ b % 2 = 1 THEN 1 ELSE 0) + 2 * OrByte(a \div 2, b \div 2, n - 1)

And32(a, b) == [k \in 1..4 |-> AndByte(a[k], b[k], 8)]
Or32(a, b) == [k \in 1..4 |-> OrByte(a[k], b[k], 8)]

\* x >> (8 * n) and x << (8 * n), n in 0..3
ShrBytes(x, n) == [k \in 1..4 |-> IF k + n <= 4 THEN x[k + n] ELSE 0]
ShlBytes(x, n) == [k \in 1..4 |-> IF k - n >= 1 THEN x[k - n] ELSE 0]

\* (list >> i) & 1, list a register-list bitmap below 2^16
Bit(list, i) == (list \div (2 ^ i)) % 2

----------------------------------------------------------------------------
(* The on-demand-all-backup scheme and its capacitor *)

\* energies are counted in 1/EnergyScale nJ
EnergyScale == 32
\* 0.03125 nJ
normal_running_energy == 1
\* 0.75 nJ
backup_energy_penalty == 24
\* 0.25 nJ
recovery_energy_penalty == 8
backup_time_penalty == 35
restore_time_penalty == 35
\* 470e-9 F, in nF
capacitance == 470
\* battery(capacitance, 7.5): twice the maximum voltage, in V
maximum_voltage_x2 == 15

\* 1/2 C V_max^2 in nJ, times EnergyScale
maximum_energy_stored ==
  (capacitance * maximum_voltage_x2 * maximum_voltage_x2 * EnergyScale) \div 8

\* mutant: the capacitor goes below zero
consume_energy_unclamped(stored, e) == stored - e

\* capacitor::consume_energy: saturates at 0
consume_energy(stored, e) == IF e > stored THEN 0 ELSE stored - e

\* capacitor::harvest_energy: saturates at the maximum
harvest_energy(stored, e) ==
  IF stored + e > maximum_energy_stored THEN maximum_energy_stored ELSE stored + e

energy_stored(stored) == stored

\* a new active period model
EmptyModel == [instruction_energy |-> 0, backup_times |-> <<>>]

\* mutant: the instruction's energy is debited but not credited to the stats
execute_instruction_no_credit(stored, ms) ==
  [battery |-> consume_energy(stored, normal_running_energy), models |-> ms]

\* mutant: the energy is credited to the first active period model
execute_instruction_first_model(stored, ms) ==
  [battery |-> consume_energy(stored, normal_running_energy),
   models |-> [ms EXCEPT ![1].instruction_energy = @ + normal_running_energy]]

execute_instruction(stored, ms) ==
  [battery |-> consume_energy(stored, normal_running_energy),
   models |-> [ms EXCEPT ![Len(ms)].instruction_energy = @ + normal_running_energy]]

\* mutant: the comparison is the wrong way round
is_active_flipped(stored) ==
  energy_stored(stored) <
    (normal_running_energy + backup_energy_penalty + recovery_energy_penalty)

is_active(stored) ==
  energy_stored(stored) >
    (normal_running_energy + backup_energy_penalty + recovery_energy_penalty)

will_backup(stored) == energy_stored(stored) > backup_energy_penalty

\* mutant: the backup is paid for but not recorded
backup_unrecorded(stored, lcc, ms, cycles) ==
  [battery |-> consume_energy(stored, backup_energy_penalty),
   models |-> ms,
   last_cycle_count |-> cycles,
   ret |-> backup_time_penalty]

backup(stored, lcc, ms, cycles) ==
  [battery |-> consume_energy(stored, backup_energy_penalty),
   models |-> [ms EXCEPT ![Len(ms)].backup_times = Append(@, cycles - lcc)],
   last_cycle_count |-> cycles,
   ret |-> backup_time_penalty]

\* mutant: a restore reuses the open active period model
restore_reuse(stored, ms) ==
  [battery |-> consume_energy(stored, recovery_energy_penalty),
   models |-> IF ms = <<>> THEN <<EmptyModel>>
              ELSE [ms EXCEPT ![Len(ms)] = EmptyModel],
   ret |-> restore_time_penalty]

\* mutant: the recovery penalty is added to the capacitor
restore_credit(stored, ms) ==
  [battery |-> stored + recovery_energy_penalty,
   models |-> Append(ms, EmptyModel),
   ret |-> restore_time_penalty]

restore(stored, ms) ==
  [battery |-> consume_energy(stored, recovery_energy_penalty),
   models |-> Append(ms, EmptyModel),
   ret |-> restore_time_penalty]

\* bookkeeping: the last operation and the energy before it, the instructions
\* executed and the intervals due since the last restore, the cycle count of
\* the last event of the active period, whether every harvest so far filled
\* the capacitor, the number of operations, the energy the scheme's calls have
\* taken out of the capacitor so far, and the number of restores
NoHist ==
  [op |-> "none", pre |-> 0, execs |-> 0, due |-> <<>>, event |-> 0,
   ample |-> TRUE, n |-> 0, debited |-> 0, restores |-> 0]

----------------------------------------------------------------------------
(* Memory, registers and exit: the interface the execute units call *)

\* first byte of RAM (0x20000000)
RamBase == 536870912

RAM == {Add32(W(RamBase), W(4 * i)) : i \in 0..(MemWords - 1)}

TIMING_MEM == 2
TIMING_PC_UPDATE == 2

\* the machine a handler works on
Machine == [gpr |-> gpr, mem |-> mem, bt |-> BRANCH_WAS_TAKEN, halted |-> halted, bus |-> <<>>]

\* terminate_simulation(code): the run ends here, nothing after it executes
terminate_simulation(m, code) == IF m.halted THEN m ELSE [m EXCEPT !.halted = TRUE]

cpu_get_gpr(m, i) == m.gpr[i]
cpu_set_gpr(m, i, v) == IF m.halted THEN m ELSE [m EXCEPT !.gpr[i] = v]
cpu_get_sp(m) == m.gpr[13]
cpu_set_sp(m, v) == IF m.halted THEN m ELSE [m EXCEPT !.gpr[13] = v]

\* load(address, &data, rmw): the machine after the access (a load outside RAM
\* is a fatal memory fault) and the word read
load(m, address, rmw) ==
  IF m.halted THEN m
  ELSE IF address \in RAM
       THEN [m EXCEPT !.bus = Append(@, [kind |-> "load", addr |-> address, rmw |-> rmw])]
       ELSE terminate_simulation(m, 1)
loaded(m, address) == IF ~m.halted /\ address \in RAM THEN m.mem[address] ELSE W(0)

\* store(address, data)
store(m, address, data) ==
  IF m.halted THEN m
  ELSE IF address \in RAM
       THEN [m EXCEPT !.mem[address] = data,
                      !.bus = Append(@, [kind |-> "store", addr |-> address, rmw |-> 0])]
       ELSE terminate_simulation(m, 1)

\* x & ~0x3 and x & 0x3
WordAligned(x) == <<x[1] - (x[1] % 4), x[2], x[3], x[4]>>
Lane(x) == x[1] % 4

zeroExtend32(x) == x

----------------------------------------------------------------------------
(* Load/store multiple *)

\* mutant: the loop runs from r7 down to r0
RECURSIVE ldm_loop_descending(_, _, _, _, _)
ldm_loop_descending(m, decoded, i, address, numLoaded) ==
  IF i = 8 THEN [m |-> m, address |-> address, n |-> numLoaded]
  ELSE IF Bit(decoded.register_list, 7 - i) = 1
       THEN LET m1 == load(m, address, 0)
                data == loaded(m, address)
                m2 == cpu_set_gpr(m1, 7 - i, data)
            IN ldm_loop_descending(m2, decoded, i + 1, Add32(address, W(4)), numLoaded + 1)
       ELSE ldm_loop_descending(m, decoded, i + 1, address, numLoaded)

RECURSIVE ldm_loop(_, _, _, _, _)
ldm_loop(m, decoded, i, address, numLoaded) ==
  IF i = 8 THEN [m |-> m, address |-> address, n |-> numLoaded]
  ELSE IF Bit(decoded.register_list, i) = 1
       THEN LET m1 == load(m, address, 0)
                data == loaded(m, address)
                m2 == cpu_set_gpr(m1, i, data)
            IN ldm_loop(m2, decoded, i + 1, Add32(address, W(4)), numLoaded + 1)
       ELSE ldm_loop(m, decoded, i + 1, address, numLoaded)

\* mutant: the base register is post-incremented whether or not it was loaded
ldm_always_writeback(m, decoded) ==
  LET r == ldm_loop(m, decoded, 0, cpu_get_gpr(m, decoded.Rn), 0)
  IN [m |-> cpu_set_gpr(r.m, decoded.Rn, r.address), ret |-> 1 + r.n]

ldm(m, decoded) ==
  LET rNWritten == Bit(decoded.register_list, decoded.Rn)
      address == cpu_get_gpr(m, decoded.Rn)
      r == ldm_loop(m, decoded, 0, address, 0)
      m3 == IF rNWritten = 0 THEN cpu_set_gpr(r.m, decoded.Rn, r.address) ELSE r.m
  IN [m |-> m3, ret |-> 1 + r.n]

\* mutant: the malformed-instruction check comes after the store
RECURSIVE stm_loop_store_first(_, _, _, _, _)
stm_loop_store_first(m, decoded, i, address, numStored) ==
  IF i = 8 THEN [m |-> m, address |-> address, n |-> numStored]
  ELSE IF Bit(decoded.register_list, i) = 1
       THEN LET m1 == store(m, address, cpu_get_gpr(m, i))
                m2 == IF i = decoded.Rn /\ numStored = 0
                      THEN terminate_simulation(m1, 1)
                      ELSE m1
            IN stm_loop_store_first(m2, decoded, i + 1, Add32(address, W(4)), numStored + 1)
       ELSE stm_loop_store_first(m, decoded, i + 1, address, numStored)

RECURSIVE stm_loop(_, _, _, _, _)
stm_loop(m, decoded, i, address, numStored) ==
  IF i = 8 THEN [m |-> m, address |-> address, n |-> numStored]
  ELSE IF Bit(decoded.register_list, i) = 1
       THEN LET m0 == IF i = decoded.Rn /\ numStored = 0
                      THEN terminate_simulation(m, 1)
                      ELSE m
                data == cpu_get_gpr(m0, i)
                m1 == store(m0, address, data)
            IN stm_loop(m1, decoded, i + 1, Add32(address, W(4)), numStored + 1)
       ELSE stm_loop(m, decoded, i + 1, address, numStored)

stm(m, decoded) ==
  LET address == cpu_get_gpr(m, decoded.Rn)
      r == stm_loop(m, decoded, 0, address, 0)
  IN [m |-> cpu_set_gpr(r.m, decoded.Rn, r.address), ret |-> 1 + r.n]

----------------------------------------------------------------------------
(* Stack operations *)

\* the values i takes in pop's loop: 0..7, then (i = 7 sets i to 14) 15
PopOrder == <<0, 1, 2, 3, 4, 5, 6, 7, 15>>
\* mutant: push walks the registers upwards, as pop does
PushOrderAscending == <<0, 1, 2, 3, 4, 5, 6, 7, 14>>
\* the values i takes in push's loop: 14, then (i = 14 sets i to 8) 7..0
PushOrder == <<14, 7, 6, 5, 4, 3, 2, 1, 0>>

RECURSIVE pop_loop(_, _, _, _, _)
pop_loop(m, decoded, k, address, numLoaded) ==
  IF k > Len(PopOrder) THEN [m |-> m, address |-> address, n |-> numLoaded]
  ELSE LET i == PopOrder[k] IN
       IF Bit(decoded.register_list, i) = 1
       THEN LET m1 == load(m, address, 0)
                data == loaded(m, address)
                m2 == cpu_set_gpr(m1, i, data)
                m3 == IF i = 15 /\ ~m2.halted THEN [m2 EXCEPT !.bt = 1] ELSE m2
            IN pop_loop(m3, decoded, k + 1, Add32(address, W(4)), numLoaded + 1)
       ELSE pop_loop(m, decoded, k + 1, address, numLoaded)

\* 1 + numLoaded + BRANCH_WAS_TAKEN ? TIMING_PC_UPDATE : 0, as C parses it:
\* (1 + numLoaded + BRANCH_WAS_TAKEN) ? TIMING_PC_UPDATE : 0
pop_cost(numLoaded, branch_was_taken) ==
  IF 1 + numLoaded + branch_was_taken # 0 THEN TIMING_PC_UPDATE ELSE 0

pop(m, decoded) ==
  LET address == cpu_get_sp(m)
      r == pop_loop(m, decoded, 1, address, 0)
      m4 == cpu_set_sp(r.m, r.address)
  IN [m |-> m4, ret |-> pop_cost(r.n, m4.bt)]

\* mutant: the address is decremented after the store
RECURSIVE push_loop_post_decrement(_, _, _, _, _)
push_loop_post_decrement(m, decoded, k, address, numStored) ==
  IF k > Len(PushOrder) THEN [m |-> m, address |-> address, n |-> numStored]
  ELSE LET i == PushOrder[k] IN
       IF Bit(decoded.register_list, i) = 1
       THEN LET data == cpu_get_gpr(m, i)
                m1 == store(m, address, data)
            IN push_loop_post_decrement(m1, decoded, k + 1, Sub32(address, W(4)), numStored + 1)
       ELSE push_loop_post_decrement(m, decoded, k + 1, address, numStored)

RECURSIVE push_loop(_, _, _, _, _)
push_loop(m, decoded, k, address, numStored) ==
  IF k > Len(PushOrder) THEN [m |-> m, address |-> address, n |-> numStored]
  ELSE LET i == PushOrder[k] IN
       IF Bit(decoded.register_list, i) = 1
       THEN LET a1 == Sub32(address, W(4))
                data == cpu_get_gpr(m, i)
                m1 == store(m, a1, data)
            IN push_loop(m1, decoded, k + 1, a1, numStored + 1)
       ELSE push_loop(m, decoded, k + 1, address, numStored)

push(m, decoded) ==
  LET address == cpu_get_sp(m)
      r == push_loop(m, decoded, 1, address, 0)
  IN [m |-> cpu_set_sp(r.m, r.address), ret |-> 1 + r.n]

----------------------------------------------------------------------------
(* Byte loads and stores *)

\* switch(effectiveAddress & 0x3): result >>= 0, 8, 16, 24; then result & 0xFF
ldrb_select(result, effectiveAddress) ==
  LET lane == Lane(effectiveAddress)
      shifted == CASE lane = 0 -> result
                   [] lane = 1 -> ShrBytes(result, 1)
                   [] lane = 2 -> ShrBytes(result, 2)
                   [] lane = 3 -> ShrBytes(result, 3)
  IN zeroExtend32(And32(shifted, <<255, 0, 0, 0>>))

\* the body shared by ldrb_i and ldrb_r once the effective address is known
ldrb_at(m, Rd, effectiveAddress) ==
  LET effectiveAddressWordAligned == WordAligned(effectiveAddress)
      m1 == load(m, effectiveAddressWordAligned, 0)
      result == ldrb_select(loaded(m, effectiveAddressWordAligned), effectiveAddress)
  IN [m |-> cpu_set_gpr(m1, Rd, result), ret |-> TIMING_MEM]

ldrb_i(m, decoded) ==
  LET base == cpu_get_gpr(m, decoded.Rn)
      offset == zeroExtend32(W(decoded.imm))
  IN ldrb_at(m, decoded.Rd, Add32(base, offset))

ldrb_r(m, decoded) ==
  LET base == cpu_get_gpr(m, decoded.Rn)
      offset == cpu_get_gpr(m, decoded.Rm)
  IN ldrb_at(m, decoded.Rd, Add32(base, offset))

\* mutant: the byte is always spliced into lane 0
strb_splice_lane0(orig, data, effectiveAddress) ==
  Or32(And32(orig, <<0, 255, 255, 255>>), ShlBytes(data, 0))

\* switch(effectiveAddress & 0x3): orig = (orig & mask) | (data << 0, 8, 16, 24)
strb_splice(orig, data, effectiveAddress) ==
  LET lane == Lane(effectiveAddress)
  IN CASE lane = 0 -> Or32(And32(orig, <<0, 255, 255, 255>>), ShlBytes(data, 0))
       [] lane = 1 -> Or32(And32(orig, <<255, 0, 255, 255>>), ShlBytes(data, 1))
       [] lane = 2 -> Or32(And32(orig, <<255, 255, 0, 255>>), ShlBytes(data, 2))
       [] lane = 3 -> Or32(And32(orig, <<255, 255, 255, 0>>), ShlBytes(data, 3))

\* the body shared by strb_i and strb_r once the effective address is known
strb_at(m, Rd, effectiveAddress) ==
  LET effectiveAddressWordAligned == WordAligned(effectiveAddress)
      data == And32(cpu_get_gpr(m, Rd), <<255, 0, 0, 0>>)
      m1 == load(m, effectiveAddressWordAligned, 1)
      orig == strb_splice(loaded(m, effectiveAddressWordAligned), data, effectiveAddress)
  IN [m |-> store(m1, effectiveAddressWordAligned, orig), ret |-> TIMING_MEM]

strb_i(m, decoded) ==
  LET base == cpu_get_gpr(m, decoded.Rn)
      offset == zeroExtend32(W(decoded.imm))
  IN strb_at(m, decoded.Rd, Add32(base, offset))

strb_r(m, decoded) ==
  LET base == cpu_get_gpr(m, decoded.Rn)
      offset == cpu_get_gpr(m, decoded.Rm)
  IN strb_at(m, decoded.Rd, Add32(base, offset))

----------------------------------------------------------------------------
(* Halfword and sign-extending loads and stores *)

\* x & 0x2
HalfSelect(x) == 2 * ((x[1] \div 2) % 2)

\* signExtend32(x, n), n = 8 or 16: bit n - 1 of x fills the bits above it
signExtend32(x, n) ==
  IF n = 8
  THEN (IF x[1] >= 128 THEN <<x[1], 255, 255, 255>> ELSE <<x[1], 0, 0, 0>>)
  ELSE (IF x[2] >= 128 THEN <<x[1], x[2], 255, 255>> ELSE <<x[1], x[2], 0, 0>>)

\* mutant: the halfword is selected by effectiveAddress & 0x3
ldrh_shift_by_lane(result, effectiveAddress) ==
  IF Lane(effectiveAddress) = 0 THEN result ELSE ShrBytes(result, 2)

\* switch(effectiveAddress & 0x2): case 0: break; default: result >>= 16
ldrh_shift(result, effectiveAddress) ==
  IF HalfSelect(effectiveAddress) = 0 THEN result ELSE ShrBytes(result, 2)

\* the body shared by ldrh_i and ldrh_r once the effective address is known
ldrh_at(m, Rd, effectiveAddress) ==
  LET effectiveAddressWordAligned == WordAligned(effectiveAddress)
      m1 == load(m, effectiveAddressWordAligned, 0)
      shifted == ldrh_shift(loaded(m, effectiveAddressWordAligned), effectiveAddress)
      result == zeroExtend32(And32(shifted, <<255, 255, 0, 0>>))
  IN [m |-> cpu_set_gpr(m1, Rd, result), ret |-> TIMING_MEM]

\* offset = zeroExtend32(decoded->imm << 1)
ldrh_i(m, decoded) ==
  LET base == cpu_get_gpr(m, decoded.Rn)
      offset == zeroExtend32(W(decoded.imm * 2))
  IN ldrh_at(m, decoded.Rd, Add32(base, offset))

ldrh_r(m, decoded) ==
  LET base == cpu_get_gpr(m, decoded.Rn)
      offset == cpu_get_gpr(m, decoded.Rm)
  IN ldrh_at(m, decoded.Rd, Add32(base, offset))

ldrsb_r(m, decoded) ==
  LET base == cpu_get_gpr(m, decoded.Rn)
      offset == cpu_get_gpr(m, decoded.Rm)
      effectiveAddress == Add32(base, offset)
      effectiveAddressWordAligned == WordAligned(effectiveAddress)
      m1 == load(m, effectiveAddressWordAligned, 0)
      shifted == ShrBytes(loaded(m, effectiveAddressWordAligned), Lane(effectiveAddress))
      result == signExtend32(And32(shifted, <<255, 0, 0, 0>>), 8)
  IN [m |-> cpu_set_gpr(m1, decoded.Rd, result), ret |-> TIMING_MEM]

ldrsh_r(m, decoded) ==
  LET base == cpu_get_gpr(m, decoded.Rn)
      offset == cpu_get_gpr(m, decoded.Rm)
      effectiveAddress == Add32(base, offset)
      effectiveAddressWordAligned == WordAligned(effectiveAddress)
      m1 == load(m, effectiveAddressWordAligned, 0)
      shifted == ldrh_shift(loaded(m, effectiveAddressWordAligned), effectiveAddress)
      result == signExtend32(And32(shifted, <<255, 255, 0, 0>>), 16)
  IN [m |-> cpu_set_gpr(m1, decoded.Rd, result), ret |-> TIMING_MEM]

\* switch(effectiveAddress & 0x2): orig = (orig & mask) | (data << 0, 16)
strh_splice(orig, data, effectiveAddress) ==
  IF HalfSelect(effectiveAddress) = 0
  THEN Or32(And32(orig, <<0, 0, 255, 255>>), ShlBytes(data, 0))
  ELSE Or32(And32(orig, <<255, 255, 0, 0>>), ShlBytes(data, 2))

\* mutant: the word is read without the read-modify-write flag
strh_at_plain_load(m, Rd, effectiveAddress) ==
  LET effectiveAddressWordAligned == WordAligned(effectiveAddress)
      data == And32(cpu_get_gpr(m, Rd), <<255, 255, 0, 0>>)
      m1 == load(m, effectiveAddressWordAligned, 0)
      orig == strh_splice(loaded(m, effectiveAddressWordAligned), data, effectiveAddress)
  IN [m |-> store(m1, effectiveAddressWordAligned, orig), ret |-> TIMING_MEM]

\* the body shared by strh_i and strh_r once the effective address is known
strh_at(m, Rd, effectiveAddress) ==
  LET effectiveAddressWordAligned == WordAligned(effectiveAddress)
      data == And32(cpu_get_gpr(m, Rd), <<255, 255, 0, 0>>)
      m1 == load(m, effectiveAddressWordAligned, 1)
      orig == strh_splice(loaded(m, effectiveAddressWordAligned), data, effectiveAddress)
  IN [m |-> store(m1, effectiveAddressWordAligned, orig), ret |-> TIMING_MEM]

\* offset = zeroExtend32(decoded->imm << 1)
strh_i(m, decoded) ==
  LET base == cpu_get_gpr(m, decoded.Rn)
      offset == zeroExtend32(W(decoded.imm * 2))
  IN strh_at(m, decoded.Rd, Add32(base, offset))

strh_r(m, decoded) ==
  LET base == cpu_get_gpr(m, decoded.Rn)
      offset == cpu_get_gpr(m, decoded.Rm)
  IN strh_at(m, decoded.Rd, Add32(base, offset))

\* the effective address of an immediate-offset or register-offset sub-word
\* access
EffectiveAddress(op, g, decoded) ==
  IF op \in {"ldrb_i", "strb_i"}
  THEN Add32(g[decoded.Rn], W(decoded.imm))
  ELSE IF op \in {"ldrh_i", "strh_i"}
       THEN Add32(g[decoded.Rn], W(decoded.imm * 2))
       ELSE Add32(g[decoded.Rn], g[decoded.Rm])

----------------------------------------------------------------------------
(* The execute units as a state machine: one action per handler *)

Decoded(Rd, Rn, Rm, imm, list) ==
  [Rd |-> Rd, Rn |-> Rn, Rm |-> Rm, imm |-> imm, register_list |-> list]

NoInstr == [op |-> "none", decoded |-> Decoded(0, 0, 0, 0, 0), gpr |-> <<>>, mem |-> <<>>]

InitGpr(s) ==
  [i \in 0..15 |->
     CASE i = 0 -> Add32(W(RamBase), W(4 * s))
       [] i = 1 -> Add32(W(RamBase), W(4 * (3 + s)))
       [] i = 2 -> Add32(W(RamBase), W(4 * (MemWords - 3)))
       [] i = 5 -> W(1 + s)
       [] i = 6 -> W(7)
       [] i = 13 -> Add32(W(RamBase), W(4 * (MemWords - 2 * s)))
       [] i = 14 -> <<1 + 2 * s, 1, 0, 8>>
       [] i = 15 -> <<64, 2, 0, 8>>
       [] OTHER -> <<16 * i + 1 + s, 16 * i + 2, 16 * i + 3, 128 + i + s>>]

InitMem(s) ==
  [a \in RAM |->
     LET k == (Lo16(a) \div 4) % 64
     IN IF k % 4 = 1
        THEN Add32(W(RamBase), W(4 * ((k + 3) % MemWords)))
        ELSE <<160 + k, 176 + k + s, 192 + k, 208 + k>>]

EhIdle ==
  /\ battery = 0
  /\ last_cycle_count = 0
  /\ models = <<>>
  /\ cycle_count = 0
  /\ pc = "idle"
  /\ ub = FALSE
  /\ hist = NoHist

CpuInit ==
  /\ \E s \in 0..(NumSeeds - 1) : gpr = InitGpr(s) /\ mem = InitMem(s)
  /\ BRANCH_WAS_TAKEN = 0
  /\ halted = FALSE
  /\ ret = 0
  /\ bus = <<>>
  /\ last = NoInstr
  /\ last2 = NoInstr
  /\ nsteps = 0

\* the driver clears the branch-taken flag, runs the handler and keeps what it
\* returned
Execute(op, decoded, r) ==
  /\ gpr' = r.m.gpr
  /\ mem' = r.m.mem
  /\ BRANCH_WAS_TAKEN' = r.m.bt
  /\ halted' = r.m.halted
  /\ ret' = r.ret
  /\ bus' = r.m.bus
  /\ last' = [op |-> op, decoded |-> decoded, gpr |-> gpr, mem |-> mem]
  /\ last2' = last
  /\ nsteps' = nsteps + 1
  /\ UNCHANGED ehvars

Fetch == [Machine EXCEPT !.bt = 0]
CanStep == ~halted /\ nsteps < MaxSteps

LowLists == {7, 6, 2, 129}
BaseRegs == {0, 1, 2}
PushLists == {16639, 255, 16400, 3, 0}
PopLists == {33023, 255, 32784, 3, 32768}

Ldm ==
  /\ CanStep
  /\ \E Rn \in BaseRegs, list \in LowLists :
       LET decoded == Decoded(0, Rn, 0, 0, list)
       IN Execute("ldm", decoded, ldm(Fetch, decoded))

Stm ==
  /\ CanStep
  /\ \E Rn \in BaseRegs, list \in LowLists :
       LET decoded == Decoded(0, Rn, 0, 0, list)
       IN Execute("stm", decoded, stm(Fetch, decoded))

Push ==
  /\ CanStep
  /\ \E list \in PushLists :
       LET decoded == Decoded(0, 0, 0, 0, list)
       IN Execute("push", decoded, push(Fetch, decoded))

Pop ==
  /\ CanStep
  /\ \E list \in PopLists :
       LET decoded == Decoded(0, 0, 0, 0, list)
       IN Execute("pop", decoded, pop(Fetch, decoded))

ByteRd == {3, 4}
ByteRn == {0, 1}
ByteImm == {0, 1, 2, 3, 6}
ByteRm == {5, 6}

Ldrb_i ==
  /\ CanStep
  /\ \E Rd \in ByteRd, Rn \in ByteRn, imm \in ByteImm :
       LET decoded == Decoded(Rd, Rn, 0, imm, 0)
       IN Execute("ldrb_i", decoded, ldrb_i(Fetch, decoded))

Ldrb_r ==
  /\ CanStep
  /\ \E Rd \in ByteRd, Rn \in ByteRn, Rm \in ByteRm :
       LET decoded == Decoded(Rd, Rn, Rm, 0, 0)
       IN Execute("ldrb_r", decoded, ldrb_r(Fetch, decoded))

Strb_i ==
  /\ CanStep
  /\ \E Rd \in ByteRd, Rn \in ByteRn, imm \in ByteImm :
       LET decoded == Decoded(Rd, Rn, 0, imm, 0)
       IN Execute("strb_i", decoded, strb_i(Fetch, decoded))

Strb_r ==
  /\ CanStep
  /\ \E Rd \in ByteRd, Rn \in ByteRn, Rm \in ByteRm :
       LET decoded == Decoded(Rd, Rn, Rm, 0, 0)
       IN Execute("strb_r", decoded, strb_r(Fetch, decoded))

Ldrh_i ==
  /\ CanStep
  /\ \E Rd \in ByteRd, Rn \in ByteRn, imm \in ByteImm :
       LET decoded == Decoded(Rd, Rn, 0, imm, 0)
       IN Execute("ldrh_i", decoded, ldrh_i(Fetch, decoded))

Ldrh_r ==
  /\ CanStep
  /\ \E Rd \in ByteRd, Rn \in ByteRn, Rm \in ByteRm :
       LET decoded == Decoded(Rd, Rn, Rm, 0, 0)
       IN Execute("ldrh_r", decoded, ldrh_r(Fetch, decoded))

Ldrsb_r ==
  /\ CanStep
  /\ \E Rd \in ByteRd, Rn \in ByteRn, Rm \in ByteRm :
       LET decoded == Decoded(Rd, Rn, Rm, 0, 0)
       IN Execute("ldrsb_r", decoded, ldrsb_r(Fetch, decoded))

Ldrsh_r ==
  /\ CanStep
  /\ \E Rd \in ByteRd, Rn \in ByteRn, Rm \in ByteRm :
       LET decoded == Decoded(Rd, Rn, Rm, 0, 0)
       IN Execute("ldrsh_r", decoded, ldrsh_r(Fetch, decoded))

Strh_i ==
  /\ CanStep
  /\ \E Rd \in ByteRd, Rn \in ByteRn, imm \in ByteImm :
       LET decoded == Decoded(Rd, Rn, 0, imm, 0)
       IN Execute("strh_i", decoded, strh_i(Fetch, decoded))

Strh_r ==
  /\ CanStep
  /\ \E Rd \in ByteRd, Rn \in ByteRn, Rm \in ByteRm :
       LET decoded == Decoded(Rd, Rn, Rm, 0, 0)
       IN Execute("strh_r", decoded, strh_r(Fetch, decoded))

InitCpu == CpuInit /\ EhIdle

NextMulti == Ldm \/ Stm
NextStack == Push \/ Pop
NextByte == Ldrb_i \/ Ldrb_r \/ Strb_i \/ Strb_r
NextHalf == Ldrh_i \/ Ldrh_r \/ Strh_i \/ Strh_r

\* load/store multiple
SpecMulti == InitCpu /\ [][NextMulti]_vars
\* push and pop
SpecStack == InitCpu /\ [][NextStack]_vars
\* byte loads and stores
SpecByte == InitCpu /\ [][NextByte]_vars
\* halfword loads and stores
SpecHalf == InitCpu /\ [][NextHalf]_vars

CanSubWordStep == nsteps < MaxSubWordSteps

SubLdrb_i == CanSubWordStep /\ Ldrb_i
SubLdrb_r == CanSubWordStep /\ Ldrb_r
SubLdrh_i == CanSubWordStep /\ Ldrh_i
SubLdrh_r == CanSubWordStep /\ Ldrh_r
SubLdrsb_r == CanSubWordStep /\ Ldrsb_r
SubLdrsh_r == CanSubWordStep /\ Ldrsh_r
SubStrb_i == CanSubWordStep /\ Strb_i
SubStrb_r == CanSubWordStep /\ Strb_r
SubStrh_i == CanSubWordStep /\ Strh_i
SubStrh_r == CanSubWordStep /\ Strh_r

NextSubWord ==
  \/ SubLdrb_i \/ SubLdrb_r \/ SubLdrh_i \/ SubLdrh_r \/ SubLdrsb_r \/ SubLdrsh_r
  \/ SubStrb_i \/ SubStrb_r \/ SubStrh_i \/ SubStrh_r

\* every load and store of less than a word
SpecSubWord == InitCpu /\ [][NextSubWord]_vars

----------------------------------------------------------------------------
(* Properties of the execute units *)

Listed(list) == {i \in 0..15 : Bit(list, i) = 1}
\* how many listed registers come before register i
Rank(list, i) == Cardinality({j \in Listed(list) : j < i})
FirstListed(list) == CHOOSE i \in Listed(list) : \A j \in Listed(list) : i <= j
\* the n words from address base on are all in RAM
InRam(base, n) == \A k \in 0..(n - 1) : Add32(base, W(4 * k)) \in RAM

IsStrb(i) == i.op \in {"strb_i", "strb_r"}
IsLdrb(i) == i.op \in {"ldrb_i", "ldrb_r"}
StrbThenLdrb ==
  /\ IsStrb(last2) /\ IsLdrb(last) /\ ~halted
  /\ EffectiveAddress(last2.op, last2.gpr, last2.decoded)
       = EffectiveAddress(last.op, last.gpr, last.decoded)

\* C1: a strb to byte address a followed by a ldrb from a leaves v & 0xFF in the
\* destination register, v the register stored, and the three other byte lanes
\* of the word containing a are what they were before the strb.
C1_ByteRoundTrip ==
  StrbThenLdrb =>
    LET a == EffectiveAddress(last.op, last.gpr, last.decoded)
        v == last2.gpr[last2.decoded.Rd]
    IN /\ gpr[last.decoded.Rd] = <<v[1], 0, 0, 0>>
       /\ \A k \in 1..4 : k # Lane(a) + 1 => mem[WordAligned(a)][k] = last2.mem[WordAligned(a)][k]

\* a strb_i and a ldrb_r met at one address in an upper lane, and the byte
\* stored differs from the byte that was there
C1_Witness ==
  /\ StrbThenLdrb
  /\ last2.op = "strb_i" /\ last.op = "ldrb_r"
  /\ LET a == EffectiveAddress(last.op, last.gpr, last.decoded)
     IN /\ Lane(a) # 0
        /\ last2.mem[WordAligned(a)][Lane(a) + 1] # last2.gpr[last2.decoded.Rd][1]

PushAllThenPopAll ==
  /\ last2.op = "push" /\ last2.decoded.register_list = 16639
  /\ last.op = "pop" /\ last.decoded.register_list = 33023
  /\ ~halted

\* C2: push {r0-r7, lr} followed at once by pop {r0-r7, pc} leaves r0..r7 and
\* SP as they were before the push, PC equal to the LR of before the push, and
\* the branch-taken flag set.
C2_PushPopRoundTrip ==
  PushAllThenPopAll =>
    /\ \A i \in 0..7 : gpr[i] = last2.gpr[i]
    /\ gpr[15] = last2.gpr[14]
    /\ BRANCH_WAS_TAKEN = 1
    /\ gpr[13] = last2.gpr[13]

C2_Witness == PushAllThenPopAll /\ gpr[15] # last2.gpr[15]

LdmBaseInList ==
  /\ last.op = "ldm" /\ ~halted
  /\ last.decoded.Rn \in Listed(last.decoded.register_list)

\* C3: after an LDM whose list holds the base register Rn, every listed register
\* (Rn among them) holds the word that was at base + 4 * (its rank in the list),
\* base being Rn's value before the instruction.
C3_LdmBaseLoaded ==
  LdmBaseInList =>
    \A i \in Listed(last.decoded.register_list) :
      gpr[i] = last.mem[Add32(last.gpr[last.decoded.Rn],
                              W(4 * Rank(last.decoded.register_list, i)))]

\* ldm r0!, {r0, r1, r2}: the base is loaded first and registers follow it, and
\* the word loaded into it is not base + 4 * N
C3_Witness ==
  /\ LdmBaseInList
  /\ last.decoded.Rn = 0 /\ last.decoded.register_list = 7
  /\ gpr[0] # Add32(last.gpr[0], W(12))

\* C7: pop returns 1 + N, plus TIMING_PC_UPDATE exactly when PC is in the list.
C7_PopCost ==
  (last.op = "pop" /\ ~halted) =>
    ret = 1 + Cardinality(Listed(last.decoded.register_list))
            + (IF 15 \in Listed(last.decoded.register_list) THEN TIMING_PC_UPDATE ELSE 0)

StmInRam ==
  /\ last.op = "stm"
  /\ InRam(last.gpr[last.decoded.Rn], Cardinality(Listed(last.decoded.register_list)))

\* C8: an STM (all of whose addresses are in RAM) terminates the run exactly when
\* its list holds the base register at a position other than the first stored.
C8_StmMalformedRule ==
  StmInRam =>
    (halted <=> /\ last.decoded.Rn \in Listed(last.decoded.register_list)
                /\ last.decoded.Rn # FirstListed(last.decoded.register_list))

StmBaseFirst ==
  /\ last.op = "stm"
  /\ last.decoded.Rn = FirstListed(last.decoded.register_list)

\* C9: an STM whose lowest listed register is the base register terminates the
\* run, having stored no word and not having written the base register back.
C9_StmFaultUntouched ==
  StmBaseFirst => (halted /\ mem = last.mem /\ gpr = last.gpr /\ bus = <<>>)

\* stm r1!, {r1, r2} after an instruction that completed
C9_Witness == StmBaseFirst /\ halted /\ last.decoded.register_list = 6 /\ last2.op # "none"

LdmBaseNotInList ==
  /\ last.op = "ldm" /\ ~halted
  /\ last.decoded.Rn \notin Listed(last.decoded.register_list)

\* C15: an LDM whose list does not hold the base register Rn loads the listed
\* registers in ascending register order from the consecutive words at the
\* base address, writes base + 4 * N back to Rn, leaves memory as it was and
\* returns 1 + N, N being the number of listed registers.
C15_LdmBaseNotInList ==
  LdmBaseNotInList =>
    LET list == last.decoded.register_list
        base == last.gpr[last.decoded.Rn]
        N == Cardinality(Listed(list))
    IN /\ \A i \in Listed(list) : gpr[i] = last.mem[Add32(base, W(4 * Rank(list, i)))]
       /\ Len(bus) = N
       /\ \A k \in 1..N :
            bus[k] = [kind |-> "load", addr |-> Add32(base, W(4 * (k - 1))), rmw |-> 0]
       /\ gpr[last.decoded.Rn] = Add32(base, W(4 * N))
       /\ mem = last.mem
       /\ ret = 1 + N

\* ldm r1!, {r0, r7}: two words that differ are loaded and r1 moves on by 8
C15_Witness ==
  /\ LdmBaseNotInList
  /\ last.decoded.Rn = 1 /\ last.decoded.register_list = 129
  /\ gpr[0] # gpr[7] /\ gpr[0] # last.gpr[0] /\ gpr[7] # last.gpr[7]
  /\ gpr[1] = Add32(last.gpr[1], W(8))

PushDone == last.op = "push" /\ ~halted

\* C16: a push of N registers leaves SP at SP - 4 * N, stores LR (if listed)
\* first, at the highest address, and the low registers after it in descending
\* register order, so that the k-th lowest listed register is at new SP + 4 * k;
\* it changes no register but SP and returns 1 + N.
C16_PushLayout ==
  PushDone =>
    LET list == last.decoded.register_list
        N == Cardinality(Listed(list))
        new_sp == Sub32(last.gpr[13], W(4 * N))
    IN /\ gpr[13] = new_sp
       /\ \A i \in Listed(list) : mem[Add32(new_sp, W(4 * Rank(list, i)))] = last.gpr[i]
       /\ Len(bus) = N
       /\ \A k \in 1..N :
            bus[k] = [kind |-> "store", addr |-> Sub32(last.gpr[13], W(4 * k)), rmw |-> 0]
       /\ \A i \in 0..15 : i # 13 => gpr[i] = last.gpr[i]
       /\ ret = 1 + N

\* push {r4, lr}: LR is above r4, and both words are new in memory
C16_Witness ==
  /\ PushDone /\ last.decoded.register_list = 16400
  /\ mem[gpr[13]] = last.gpr[4] /\ mem[Add32(gpr[13], W(4))] = last.gpr[14]
  /\ last.mem[gpr[13]] # mem[gpr[13]]
  /\ last.mem[Add32(gpr[13], W(4))] # last.gpr[14]

IsStrh(i) == i.op \in {"strh_i", "strh_r"}
IsLdrh(i) == i.op \in {"ldrh_i", "ldrh_r"}
StrhThenLdrh ==
  /\ IsStrh(last2) /\ IsLdrh(last) /\ ~halted
  /\ EffectiveAddress(last2.op, last2.gpr, last2.decoded)
       = EffectiveAddress(last.op, last.gpr, last.decoded)

\* C17: a strh to an effective address a (odd addresses included) followed by
\* a ldrh from a leaves v & 0xFFFF in the destination register, v being the
\* stored register; the halfword written is the upper one exactly when
\* (a mod 4) & 2 is not 0, the other halfword of the word is unchanged, and a
\* strh whose word is in RAM raises no fault, whatever its alignment.
C17_HalfwordRoundTrip ==
  /\ StrhThenLdrh =>
       LET a == EffectiveAddress(last.op, last.gpr, last.decoded)
           v == last2.gpr[last2.decoded.Rd]
           word == mem[WordAligned(a)]
           before == last2.mem[WordAligned(a)]
       IN /\ gpr[last.decoded.Rd] = <<v[1], v[2], 0, 0>>
          /\ IF (Lane(a) \div 2) % 2 = 1
             THEN word = <<before[1], before[2], v[1], v[2]>>
             ELSE word = <<v[1], v[2], before[3], before[4]>>
  /\ (IsStrh(last) /\ WordAligned(EffectiveAddress(last.op, last.gpr, last.decoded)) \in RAM)
       => ~halted

\* a strh_r and a ldrh_r met at an odd address, and the halfword stored differs
\* from the one that was there
C17_Witness ==
  /\ StrhThenLdrh
  /\ last2.op = "strh_r" /\ last.op = "ldrh_r"
  /\ LET a == EffectiveAddress(last.op, last.gpr, last.decoded)
         v == last2.gpr[last2.decoded.Rd]
     IN /\ Lane(a) \in {1, 3}
        /\ last2.mem[WordAligned(a)] # mem[WordAligned(a)]
        /\ <<v[3], v[4]>> # <<0, 0>>

SubWordStores == {"strb_i", "strb_r", "strh_i", "strh_r"}
SubWordLoads == {"ldrb_i", "ldrb_r", "ldrh_i", "ldrh_r", "ldrsb_r", "ldrsh_r"}

\* C18: a sub-word store (strb_i, strb_r, strh_i, strh_r) issues one load with
\* the read-modify-write flag set and then one store, both at the effective
\* address floored to a multiple of 4, and nothing else; a sub-word load (ldrb,
\* ldrh, ldrsb, ldrsh) issues one load with the flag clear at the floored
\* address and no store.
C18_ReadModifyWriteOrder ==
  LET floored == WordAligned(EffectiveAddress(last.op, last.gpr, last.decoded))
  IN /\ (last.op \in SubWordStores /\ ~halted) =>
          bus = <<[kind |-> "load", addr |-> floored, rmw |-> 1],
                  [kind |-> "store", addr |-> floored, rmw |-> 0]>>
     /\ (last.op \in SubWordLoads /\ ~halted) =>
          bus = <<[kind |-> "load", addr |-> floored, rmw |-> 0]>>

\* a strh_r to an address that is 3 mod 4 has read and written the word below
C18_Witness ==
  /\ last.op = "strh_r" /\ ~halted
  /\ Lane(EffectiveAddress(last.op, last.gpr, last.decoded)) = 3
  /\ Len(bus) = 2 /\ bus[1].rmw = 1 /\ bus[2].kind = "store"
  /\ bus[2].addr # EffectiveAddress(last.op, last.gpr, last.decoded)
  /\ mem # last.mem

----------------------------------------------------------------------------
(* The scheme as a state machine: its operations, under any interleaving and
   as the driver loop calls them *)

InitEnergies == {0, 40, maximum_energy_stored}
\* energy a harvest call adds: source power times elapsed time
HarvestAmounts == {0, 30, maximum_energy_stored}
\* cycle costs of an instruction
CycleCosts == {1, 2}

EhInit(start) ==
  /\ battery \in InitEnergies
  /\ last_cycle_count = 0
  /\ models = <<>>
  /\ cycle_count = 0
  /\ pc = start
  /\ ub = FALSE
  /\ hist = NoHist

CpuIdle ==
  /\ gpr = InitGpr(0) /\ mem = InitMem(0)
  /\ BRANCH_WAS_TAKEN = 0 /\ halted = FALSE /\ ret = 0 /\ bus = <<>>
  /\ last = NoInstr /\ last2 = NoInstr /\ nsteps = 0

\* battery.harvest_energy(h)
DoHarvest(h) ==
  /\ battery' = harvest_energy(battery, h)
  /\ hist' = [hist EXCEPT !.op = "harvest", !.pre = battery, !.n = @ + 1,
                          !.ample = @ /\ (battery' = maximum_energy_stored)]
  /\ UNCHANGED <<last_cycle_count, models, cycle_count, ub>>

\* execute_instruction(stats), then the instruction's k cycles are counted
DoExecute(k) ==
  /\ models # <<>>
  /\ LET r == execute_instruction(battery, models)
     IN /\ battery' = r.battery
        /\ models' = r.models
  /\ cycle_count' = cycle_count + k
  /\ hist' = [hist EXCEPT !.op = "execute", !.pre = battery, !.n = @ + 1,
                          !.execs = @ + 1,
                          !.debited = @ + (battery - battery')]
  /\ UNCHANGED <<last_cycle_count, ub>>

\* backup(stats), then the cycles it returns are counted
DoBackup ==
  /\ models # <<>>
  /\ LET r == backup(battery, last_cycle_count, models, cycle_count)
     IN /\ battery' = r.battery
        /\ models' = r.models
        /\ last_cycle_count' = r.last_cycle_count
        /\ cycle_count' = cycle_count + r.ret
  /\ hist' = [hist EXCEPT !.op = "backup", !.pre = battery, !.n = @ + 1,
                          !.due = Append(@, cycle_count - hist.event),
                          !.event = cycle_count,
                          !.debited = @ + (battery - battery')]
  /\ UNCHANGED ub

\* restore(stats), then the cycles it returns are counted
DoRestore ==
  /\ LET r == restore(battery, models)
     IN /\ battery' = r.battery
        /\ models' = r.models
        /\ cycle_count' = cycle_count + r.ret
  /\ hist' = [hist EXCEPT !.op = "restore", !.pre = battery, !.n = @ + 1,
                          !.execs = 0, !.due = <<>>, !.event = cycle_count,
                          !.debited = @ + (battery - battery'),
                          !.restores = @ + 1]
  /\ UNCHANGED <<last_cycle_count, ub>>

\* execute_instruction or backup with no active period model: both consume
\* energy and then evaluate stats->models.back() on an empty vector
DoBackOnEmpty(e) ==
  /\ models = <<>>
  /\ battery' = consume_energy(battery, e)
  /\ ub' = TRUE
  /\ hist' = [hist EXCEPT !.op = "undefined", !.pre = battery, !.n = @ + 1,
                          !.debited = @ + (battery - battery')]
  /\ UNCHANGED <<last_cycle_count, models, cycle_count>>

CanAny == pc = "any" /\ ~ub /\ hist.n < MaxAnyEvents

AnyHarvest == CanAny /\ (\E h \in HarvestAmounts : DoHarvest(h)) /\ UNCHANGED <<pc, cpuvars>>
AnyExecute == CanAny /\ (\E k \in CycleCosts : DoExecute(k)) /\ UNCHANGED <<pc, cpuvars>>
AnyBackup == CanAny /\ DoBackup /\ UNCHANGED <<pc, cpuvars>>
AnyRestore == CanAny /\ DoRestore /\ UNCHANGED <<pc, cpuvars>>
AnyBackOnEmpty ==
  /\ CanAny
  /\ \E e \in {normal_running_energy, backup_energy_penalty} : DoBackOnEmpty(e)
  /\ UNCHANGED <<pc, cpuvars>>

NextAny == AnyHarvest \/ AnyExecute \/ AnyBackup \/ AnyRestore \/ AnyBackOnEmpty

InitAny == EhInit("any") /\ CpuIdle
\* the scheme's operations in any order
SpecAny == InitAny /\ [][NextAny]_vars

\* the energy the off sub-protocol waits for: a restore and one instruction
RestartThreshold == recovery_energy_penalty + normal_running_energy

CanRun == ~ub /\ hist.n < MaxRunEvents

\* steps 1 and 2: charge the battery, then ask the scheme whether it is active
RunCharge ==
  /\ pc = "charge" /\ CanRun
  /\ \E h \in HarvestAmounts : DoHarvest(h)
  /\ pc' = IF is_active(battery') THEN "execute" ELSE "off"
  /\ UNCHANGED cpuvars

\* steps 3 to 5: execute one instruction and account for it
RunExecute ==
  /\ pc = "execute" /\ CanRun
  /\ \E k \in CycleCosts : DoExecute(k)
  /\ pc' = "policy"
  /\ UNCHANGED cpuvars

\* step 6: back up if the scheme says so
RunPolicy ==
  /\ pc = "policy" /\ CanRun
  /\ IF will_backup(battery)
     THEN DoBackup
     ELSE UNCHANGED <<battery, last_cycle_count, models, cycle_count, ub, hist>>
  /\ pc' = "charge"
  /\ UNCHANGED cpuvars

\* off: time passes and the battery charges until the restart threshold
RunOffWait ==
  /\ pc = "off" /\ CanRun
  /\ energy_stored(battery) < RestartThreshold
  /\ \E h \in HarvestAmounts : DoHarvest(h)
  /\ UNCHANGED <<pc, cpuvars>>

\* off: the threshold is reached, the scheme restores and the loop resumes
RunRestore ==
  /\ pc = "off" /\ CanRun
  /\ energy_stored(battery) >= RestartThreshold
  /\ DoRestore
  /\ pc' = "charge"
  /\ UNCHANGED cpuvars

\* off: the deadline passes before the threshold is reached
RunStall ==
  /\ pc = "off" /\ CanRun
  /\ energy_stored(battery) < RestartThreshold
  /\ pc' = "stalled"
  /\ UNCHANGED <<battery, last_cycle_count, models, cycle_count, ub, hist, cpuvars>>

NextRun == RunCharge \/ RunExecute \/ RunPolicy \/ RunOffWait \/ RunRestore \/ RunStall

InitRun == EhInit("off") /\ CpuIdle
\* the scheme's operations in the order of the driver's per-iteration protocol
SpecRun == InitRun /\ [][NextRun]_vars

----------------------------------------------------------------------------
(* Properties of the scheme *)

\* C4: under any interleaving of harvest, execute_instruction, backup and
\* restore the battery's stored energy stays within 0 and 1/2 C V_max^2.
C4_CapacitorBound == 0 <= battery /\ battery <= maximum_energy_stored

\* a backup asked for more than was stored and emptied the capacitor, in a run
\* that had already restored and backed up before
C4_Witness ==
  /\ hist.op = "backup" /\ hist.pre > 0 /\ hist.pre < backup_energy_penalty
  /\ battery = 0 /\ cycle_count > backup_time_penalty + restore_time_penalty

\* C5: the intervals backup() has appended to the current active period's
\* record are the cycle counts between each backup and the event before it:
\* the previous backup of the same active period or, for the first one, the
\* restore that opened the period.
C5_BackupIntervals ==
  (~ub /\ models # <<>>) => models[Len(models)].backup_times = hist.due

\* C6: in a run whose every harvest fills the capacitor, will_backup() is false
\* after an executed instruction and no backup is recorded.
C6_OnDemandBackup ==
  (hist.ample /\ ~ub) =>
    /\ \A i \in 1..Len(models) : models[i].backup_times = <<>>
    /\ (pc = "policy" => ~will_backup(battery))

\* C10: the instruction_energy of the current record is normal_running_energy
\* times the number of execute_instruction calls since the restore that opened
\* it, and an execute_instruction call takes exactly normal_running_energy out
\* of the battery.
C10_InstructionEnergy ==
  (~ub /\ models # <<>>) =>
    /\ models[Len(models)].instruction_energy = normal_running_energy * hist.execs
    /\ (hist.op = "execute" => hist.pre - battery = normal_running_energy)

\* the second active period has executed its second instruction
C10_Witness ==
  /\ Len(models) = 2 /\ hist.op = "execute" /\ hist.execs = 2
  /\ models[1].instruction_energy > 0

\* the sum of instruction_energy over the active period records
RECURSIVE TotalInstructionEnergy(_)
TotalInstructionEnergy(ms) ==
  IF ms = <<>> THEN 0
  ELSE Head(ms).instruction_energy + TotalInstructionEnergy(Tail(ms))

\* the number of backups recorded in the active period records
RECURSIVE TotalBackups(_)
TotalBackups(ms) ==
  IF ms = <<>> THEN 0
  ELSE Len(Head(ms).backup_times) + TotalBackups(Tail(ms))

Ledger(ms) ==
  TotalInstructionEnergy(ms) + TotalBackups(ms) * backup_energy_penalty
    + Len(ms) * recovery_energy_penalty

\* C12: when the driver follows the protocol, the instruction energy of all
\* records plus the backups' and the restores' energy is the energy that was
\* taken out of the capacitor: no consume call asks for more than is stored.
C12_LedgerConservation == Ledger(models) = hist.debited

\* two active periods with instructions and backups, and a restore paid from a
\* capacitor that was not full
C12_Witness ==
  /\ Len(models) >= 2 /\ TotalBackups(models) >= 2
  /\ TotalInstructionEnergy(models) >= 2 * normal_running_energy
  /\ hist.op = "restore" /\ hist.pre < maximum_energy_stored
  /\ hist.debited = Ledger(models)

\* the energy that pays for one instruction, a backup and a restore
ActiveReserve ==
  normal_running_energy + backup_energy_penalty + recovery_energy_penalty

\* C13: is_active() is true if and only if the stored energy is at least
\* normal_running_energy + backup_energy_penalty + recovery_energy_penalty,
\* the case of equality included.
C13_ActiveIffEnough ==
  is_active(battery) <=> (energy_stored(battery) >= ActiveReserve)

\* C14: the number of active period records is the number of restores; a
\* restore appends exactly one empty record; execute_instruction and backup
\* leave the number of records alone.
C14_OneRecordPerRestore ==
  /\ [](Len(models) = hist.restores)
  /\ [][hist'.restores # hist.restores => models' = Append(models, EmptyModel)]_vars
  /\ [][hist'.op \in {"execute", "backup"} => Len(models') = Len(models)]_vars

\* a backup in the second active period, after instructions in both
C14_Witness ==
  /\ hist.restores = 2 /\ Len(models) = 2
  /\ hist.op = "backup"
  /\ models[1].instruction_energy > 0 /\ models[2].instruction_energy > 0

\* C19: execute_instruction and backup change only the last active period
\* record; a restore changes none of the records there are; and both
\* execute_instruction and backup need a record to exist: on an empty list of
\* records their behaviour is undefined, on a non-empty one it is defined.
C19_ClosedRecordsFrozen ==
  /\ [][\A i \in 1..Len(models) :
          (i < Len(models) \/ hist'.op \notin {"execute", "backup"})
            => (i <= Len(models') /\ models'[i] = models[i])]_vars
  /\ [][hist'.op \in {"execute", "backup"} => models # <<>>]_vars
  /\ [][(models = <<>> /\ hist'.op \notin {"harvest", "restore"}) => ub']_vars
  /\ [][models # <<>> => ~ub']_vars

\* an instruction is executed in the second active period while the first
\* record holds instructions and a backup
C19_Witness ==
  /\ Len(models) = 2 /\ hist.op = "execute"
  /\ models[1].instruction_energy > 0 /\ models[1].backup_times # <<>>
  /\ models[2].instruction_energy > 0

\* C20: with the scheme's constants and 1/2 C V_max^2 in the unit of the
\* penalties, a capacitor charged to its maximum satisfies is_active(), and a
\* charge step of the driver loop that fills the capacitor is followed by the
\* execution of an instruction.
C20_FullBatteryActive ==
  /\ [](battery = maximum_energy_stored => is_active(battery))
  /\ [][(pc = "charge" /\ battery' = maximum_energy_stored) => pc' = "execute"]_vars
  /\ [][(pc = "execute" /\ hist.ample) => hist'.op = "execute"]_vars

\* every harvest so far has filled the capacitor and an instruction has been
\* executed
C20_Witness ==
  /\ hist.ample /\ hist.op = "execute" /\ pc = "policy"
  /\ hist.pre = maximum_energy_stored
  /\ models[Len(models)].instruction_energy = normal_running_energy

----------------------------------------------------------------------------
(* A run of the driver loop with a harvest power of 0 from a full capacitor *)

InitDrain ==
  /\ battery = maximum_energy_stored
  /\ last_cycle_count = 0
  /\ models = <<>>
  /\ cycle_count = 0
  /\ pc = "off"
  /\ ub = FALSE
  /\ hist = NoHist
  /\ CpuIdle

\* steps 1 and 2 with p(T) = 0
DrainCharge ==
  /\ pc = "charge" /\ ~ub
  /\ DoHarvest(0)
  /\ pc' = IF is_active(battery') THEN "execute" ELSE "off"
  /\ UNCHANGED cpuvars

\* steps 3 to 5, every instruction costing one cycle
DrainExecute ==
  /\ pc = "execute" /\ ~ub
  /\ DoExecute(1)
  /\ pc' = "policy"
  /\ UNCHANGED cpuvars

\* step 6
DrainPolicy ==
  /\ pc = "policy" /\ ~ub
  /\ IF will_backup(battery)
     THEN DoBackup
     ELSE UNCHANGED <<battery, last_cycle_count, models, cycle_count, ub, hist>>
  /\ pc' = "charge"
  /\ UNCHANGED cpuvars

\* off: the restart threshold is still there
DrainRestore ==
  /\ pc = "off" /\ ~ub
  /\ energy_stored(battery) >= RestartThreshold
  /\ DoRestore
  /\ pc' = "charge"
  /\ UNCHANGED cpuvars

\* off: with no harvest the threshold is never reached and the deadline passes
DrainStall ==
  /\ pc = "off" /\ ~ub
  /\ energy_stored(battery) < RestartThreshold
  /\ pc' = "stalled"
  /\ UNCHANGED <<battery, last_cycle_count, models, cycle_count, ub, hist, cpuvars>>

NextDrain == DrainCharge \/ DrainExecute \/ DrainPolicy \/ DrainRestore \/ DrainStall

\* the driver loop is a sequential program: it keeps taking its next step
SpecDrain == InitDrain /\ [][NextDrain]_vars /\ WF_vars(NextDrain)

\* C11: with a harvest power of 0 and a full capacitor at the start, the stored
\* energy never increases, the run ends (stalled), and from some point on
\* is_active() is false for good.
C11_TerminatesWithoutHarvest ==
  /\ [][battery' <= battery]_vars
  /\ <>(pc = "stalled")
  /\ <>[](~is_active(battery))

\* the run from the full capacitor has restored, executed and backed up, and
\* each of the three has taken its energy
C11_Witness ==
  /\ pc = "charge" /\ hist.op = "backup"
  /\ Len(models) = 1 /\ Len(models[1].backup_times) = 2
  /\ battery = maximum_energy_stored - recovery_energy_penalty
                 - 2 * (normal_running_energy + backup_energy_penalty)

====
